---------------------------- MODULE Spec2Model ----------------------------
(***************************************************************************)
(* ReverseDict (src/reverse_dict.py): a dict subclass that keeps two       *)
(* parallel lists, _keys and _values, next to the inherited forward        *)
(* storage, and a lazily built, cached inverse dictionary _inverse.        *)
(*                                                                         *)
(* A Python dict is modelled as the sequence of its <<key, value>> items   *)
(* in insertion order.  A ReverseDict object is the record                 *)
(*   [dict, _keys, _values, _inverse]                                      *)
(* and every method is an operator from the object (and the arguments) to  *)
(* [self |-> the object after the call, ret |-> what the call returns or   *)
(* raises].                                                                *)
(*                                                                         *)
(* Spec and SpecEmpty follow one object, self.  SpecPair follows self and  *)
(* inverted, the object self.invert() returned, together with the class    *)
(* attribute ReverseDict._inverse (cls_inverse) the two share.             *)
(***************************************************************************)
EXTENDS Integers, Sequences, FiniteSets

VARIABLES self, old, last, inverted, cls_inverse, calls

vars == <<self, old, last, inverted, cls_inverse, calls>>

\* Keys and values are drawn from one universe 1..MaxObj: a lookup treats
\* its argument first as a key and then as a value.
MaxObj == 3

\* The keys that are stored (by the constructor and by set) are 1..MaxKey;
\* every object of the universe is looked up and deleted.
MaxKey == 2

\* Longest sequence of pairs handed to the constructor.
MaxInit == 2

\* Most calls made on a map and the map its invert() returned, taken together.
MaxCalls == 4

Objs == 1..MaxObj

Keys == 1..MaxKey

-----------------------------------------------------------------------------
(* Results of a call *)

None == <<>>

Some(x) == <<x>>

Ok(x) == <<"ok", x>>

KeyError == <<"KeyError">>

-----------------------------------------------------------------------------
(* Python lists *)

\* x in l
list_contains(l, x) == \E i \in 1..Len(l) : l[i] = x

\* l.index(x): the first position of x
list_index(l, x) == CHOOSE i \in 1..Len(l) : l[i] = x /\ \A j \in 1..(i - 1) : l[j] # x

\* del l[i]
list_delitem(l, i) == SubSeq(l, 1, i - 1) \o SubSeq(l, i + 1, Len(l))

-----------------------------------------------------------------------------
(* The inherited dict: a sequence of <<key, value>> items, insertion order *)

dict_keys(d) == [i \in 1..Len(d) |-> d[i][1]]

dict_values(d) == [i \in 1..Len(d) |-> d[i][2]]

dict_contains(d, key) == list_contains(dict_keys(d), key)

\* d[key]
dict_getitem(d, key) ==
    IF dict_contains(d, key)
    THEN Ok(d[list_index(dict_keys(d), key)][2])
    ELSE KeyError

\* d[key] = value: an existing key keeps its position, a new key goes last
dict_setitem(d, key, value) ==
    IF dict_contains(d, key)
    THEN [d EXCEPT ![list_index(dict_keys(d), key)] = <<key, value>>]
    ELSE Append(d, <<key, value>>)

\* del d[key], for a key that is present
dict_delitem(d, key) == list_delitem(d, list_index(dict_keys(d), key))

\* dict(pairs): the pairs are stored one after the other
RECURSIVE dict_init(_, _)
dict_init(d, pairs) ==
    IF pairs = <<>>
    THEN d
    ELSE dict_init(dict_setitem(d, Head(pairs)[1], Head(pairs)[2]), Tail(pairs))

\* zip(a, b), read when it is iterated: it stops with the shorter list
zip(a, b) ==
    LET n == IF Len(a) <= Len(b) THEN Len(a) ELSE Len(b)
    IN  [i \in 1..n |-> <<a[i], b[i]>>]

-----------------------------------------------------------------------------
(* ReverseDict *)

\* __init__ filling the lists from the pairs as given, a duplicate key
\* listed once per pair
init_keeps_duplicate_keys(args) ==
    LET d == dict_init(<<>>, args)
    IN  [dict |-> d,
         _keys |-> [i \in 1..Len(args) |-> args[i][1]],
         _values |-> [i \in 1..Len(args) |-> args[i][2]],
         _inverse |-> None]

\* ReverseDict(pairs)
__init__(args) ==
    LET d == dict_init(<<>>, args)
    IN  [dict |-> d,
         _keys |-> dict_keys(d),
         _values |-> dict_values(d),
         _inverse |-> None]

\* inverse built from the forward entries instead of the two lists
inverse_from_items(s) ==
    IF s._inverse = None
    THEN LET _inverse == dict_init(<<>>, zip(dict_values(s.dict), dict_keys(s.dict)))
         IN  [self |-> [s EXCEPT !._inverse = Some(_inverse)], ret |-> _inverse]
    ELSE [self |-> s, ret |-> s._inverse[1]]

\* the property self.inverse
inverse(s) ==
    IF s._inverse = None
    THEN LET _inverse == dict_init(<<>>, zip(s._values, s._keys))
         IN  [self |-> [s EXCEPT !._inverse = Some(_inverse)], ret |-> _inverse]
    ELSE [self |-> s, ret |-> s._inverse[1]]

\* __contains__ looking the key up in the list of values, without the inverse
contains_reads_values(s, key) ==
    [self |-> s, ret |-> list_contains(s._keys, key) \/ list_contains(s._values, key)]

\* key in self
__contains__(s, key) ==
    IF list_contains(s._keys, key)
    THEN [self |-> s, ret |-> TRUE]
    ELSE LET inv == inverse(s)
         IN  [self |-> inv.self, ret |-> dict_contains(inv.ret, key)]

\* __setitem__ storing the value of a new key only (an existing key keeps its
\* value), as if the forward store were inside the if
setitem_keeps_old_value(s, key, value) ==
    IF ~list_contains(s._keys, key)
    THEN [self |-> [s EXCEPT !._keys = Append(@, key),
                             !._values = Append(@, value),
                             !.dict = dict_setitem(@, key, value)],
          ret |-> None]
    ELSE [self |-> s, ret |-> None]

\* __setitem__ that also clears the cached inverse
setitem_drops_cache(s, key, value) ==
    LET appended == IF ~list_contains(s._keys, key)
                    THEN [s EXCEPT !._keys = Append(@, key),
                                   !._values = Append(@, value)]
                    ELSE s
    IN  [self |-> [appended EXCEPT !.dict = dict_setitem(@, key, value),
                                   !._inverse = None],
         ret |-> None]

\* __setitem__ that also rewrites the value list at the position of an
\* existing key
setitem_updates_values(s, key, value) ==
    LET listed == IF ~list_contains(s._keys, key)
                  THEN [s EXCEPT !._keys = Append(@, key),
                                 !._values = Append(@, value)]
                  ELSE [s EXCEPT !._values[list_index(s._keys, key)] = value]
    IN  [self |-> [listed EXCEPT !.dict = dict_setitem(@, key, value)],
         ret |-> None]

\* self[key] = value
__setitem__(s, key, value) ==
    LET appended == IF ~list_contains(s._keys, key)
                    THEN [s EXCEPT !._keys = Append(@, key),
                                   !._values = Append(@, value)]
                    ELSE s
    IN  [self |-> [appended EXCEPT !.dict = dict_setitem(@, key, value)],
         ret |-> None]

\* __delitem__ that removes the forward entry and leaves the lists alone
delitem_keeps_lists(s, key) ==
    IF list_contains(s._keys, key) /\ dict_contains(s.dict, key)
    THEN [self |-> [s EXCEPT !.dict = dict_delitem(@, key)], ret |-> None]
    ELSE [self |-> s, ret |-> KeyError]

\* __delitem__ testing "key in self" (which reads the inverse) instead of
\* "key in self._keys"
delitem_checks_contains(s, key) ==
    IF list_contains(s._keys, key)
    THEN LET index == list_index(s._keys, key)
         IN  [self |-> [s EXCEPT !.dict = dict_delitem(@, key),
                                 !._keys = list_delitem(@, index),
                                 !._values = list_delitem(@, index)],
              ret |-> None]
    ELSE [self |-> inverse(s).self, ret |-> KeyError]

\* del self[key]; super().__delitem__ runs first and raises KeyError itself,
\* before the lists are touched, when the forward dict lacks the key
__delitem__(s, key) ==
    IF list_contains(s._keys, key)
    THEN IF dict_contains(s.dict, key)
         THEN LET index == list_index(s._keys, key)
              IN  [self |-> [s EXCEPT !.dict = dict_delitem(@, key),
                                      !._keys = list_delitem(@, index),
                                      !._values = list_delitem(@, index)],
                   ret |-> None]
         ELSE [self |-> s, ret |-> KeyError]
    ELSE [self |-> s, ret |-> KeyError]

\* the loop of invert() keeping the first key of a shared value
RECURSIVE invert_loop_first_wins(_, _, _)
invert_loop_first_wins(inverted_dict, items, i) ==
    IF i > Len(items)
    THEN inverted_dict
    ELSE invert_loop_first_wins(
             IF dict_contains(inverted_dict.dict, items[i][2])
             THEN inverted_dict
             ELSE __setitem__(inverted_dict, items[i][2], items[i][1]).self,
             items, i + 1)

\* the loop of invert(): inverted_dict[value] = key for the items from i on
RECURSIVE invert_loop(_, _, _)
invert_loop(inverted_dict, items, i) ==
    IF i > Len(items)
    THEN inverted_dict
    ELSE invert_loop(__setitem__(inverted_dict, items[i][2], items[i][1]).self,
                     items, i + 1)

\* invert() reading the pairs from the lists instead of the forward entries
invert_from_lists(s) ==
    [self |-> s, ret |-> invert_loop(__init__(<<>>), zip(s._keys, s._values), 1)]

\* self.invert()
invert(s) ==
    [self |-> s, ret |-> invert_loop(__init__(<<>>), s.dict, 1)]

\* __getitem__ resolving a value through an inverse rebuilt on every call
getitem_fresh_inverse(s, key) ==
    IF list_contains(s._keys, key)
    THEN [self |-> s, ret |-> dict_getitem(s.dict, key)]
    ELSE LET fresh == dict_init(<<>>, zip(s._values, s._keys))
         IN  [self |-> [s EXCEPT !._inverse = Some(fresh)],
              ret |-> dict_getitem(fresh, key)]

\* __getitem__ trying the inverse before the forward entries
getitem_inverse_first(s, key) ==
    LET inv == inverse(s)
    IN  IF dict_contains(inv.ret, key)
        THEN [self |-> inv.self, ret |-> dict_getitem(inv.ret, key)]
        ELSE IF list_contains(s._keys, key)
             THEN [self |-> inv.self, ret |-> dict_getitem(s.dict, key)]
             ELSE [self |-> inv.self, ret |-> KeyError]

\* self[key]
__getitem__(s, key) ==
    IF list_contains(s._keys, key)
    THEN [self |-> s, ret |-> dict_getitem(s.dict, key)]
    ELSE LET inv == inverse(s)
         IN  IF dict_contains(inv.ret, key)
             THEN [self |-> inv.self, ret |-> dict_getitem(inv.ret, key)]
             ELSE [self |-> inv.self, ret |-> KeyError]

-----------------------------------------------------------------------------
(* The state machine: one object, self; old is the object as it was before *)
(* the last call and last is that call with what it returned.              *)

Pairs == Keys \X Objs

InitArgs == UNION {[1..n -> Pairs] : n \in 0..MaxInit}

\* what only SpecPair uses: the returned object (<<>> before invert() is
\* called), the class attribute and the number of calls made
pair == <<inverted, cls_inverse, calls>>

OneObject ==
    /\ inverted = <<>>
    /\ cls_inverse = None
    /\ calls = 0

Call(op, key, value, ret) == [op |-> op, key |-> key, value |-> value, ret |-> ret]

Init ==
    \E args \in InitArgs :
        /\ self = __init__(args)
        /\ old = self
        /\ last = Call("init", 0, args, None)
        /\ OneObject

Set ==
    \E key \in Keys, value \in Objs :
        LET r == __setitem__(self, key, value)
        IN  /\ self' = r.self
            /\ old' = self
            /\ last' = Call("set", key, value, r.ret)
            /\ UNCHANGED pair

Delete ==
    \E key \in Objs :
        LET r == __delitem__(self, key)
        IN  /\ self' = r.self
            /\ old' = self
            /\ last' = Call("delete", key, 0, r.ret)
            /\ UNCHANGED pair

Get ==
    \E key \in Objs :
        LET r == __getitem__(self, key)
        IN  /\ self' = r.self
            /\ old' = self
            /\ last' = Call("get", key, 0, r.ret)
            /\ UNCHANGED pair

Contains ==
    \E key \in Objs :
        LET r == __contains__(self, key)
        IN  /\ self' = r.self
            /\ old' = self
            /\ last' = Call("contains", key, 0, r.ret)
            /\ UNCHANGED pair

Inverse ==
    LET r == inverse(self)
    IN  /\ self' = r.self
        /\ old' = self
        /\ last' = Call("inverse", 0, 0, r.ret)
        /\ UNCHANGED pair

Invert ==
    LET r == invert(self)
    IN  /\ self' = r.self
        /\ old' = self
        /\ last' = Call("invert", 0, 0, r.ret)
        /\ UNCHANGED pair

\* self.invert().invert(): invert() called on the map the last call returned
InvertInvert ==
    /\ last.op = "invert"
    /\ LET r == invert(last.ret)
       IN  /\ self' = self
           /\ old' = self
           /\ last' = Call("invert_invert", 0, 0, r.ret)
           /\ UNCHANGED pair

Next ==
    \/ Set
    \/ Delete
    \/ Get
    \/ Contains
    \/ Inverse
    \/ Invert
    \/ InvertInvert

Spec == Init /\ [][Next]_vars

\* ReverseDict(): construction without pairs, so that every entry comes
\* from a later set
InitEmpty ==
    /\ self = __init__(<<>>)
    /\ old = self
    /\ last = Call("init", 0, <<>>, None)
    /\ OneObject

SpecEmpty == InitEmpty /\ [][Next]_vars

-----------------------------------------------------------------------------
(* Two objects: self and the object self.invert() returned.  _inverse is   *)
(* declared on the class; an object has an attribute _inverse of its own   *)
(* only once a call has assigned one, and reads the class attribute until  *)
(* then.  In an object record, _inverse = None stands for "no attribute of *)
(* its own".                                                               *)

\* reading self._inverse: the object's own attribute, else the class's
lookup_inverse(cls, s) == IF s._inverse # None THEN s._inverse ELSE cls

\* the object as its methods see it
bound(cls, s) == [s EXCEPT !._inverse = lookup_inverse(cls, s)]

\* self._inverse = v on the class instead of the object
assign_inverse_on_class(cls, s, v) == [cls |-> v, obj |-> s]

\* self._inverse = v: an attribute of the object
assign_inverse(cls, s, v) == [cls |-> cls, obj |-> [s EXCEPT !._inverse = v]]

\* the class attribute and the object s after a method that was given
\* bound(cls, s) has ended with the object r_self
after(cls, s, r_self) ==
    LET fields == [r_self EXCEPT !._inverse = s._inverse]
    IN  IF r_self._inverse # bound(cls, s)._inverse
        THEN assign_inverse(cls, fields, r_self._inverse)
        ELSE [cls |-> cls, obj |-> fields]

Targets == {"self", "inverted"}

Target(on) == IF on = "self" THEN self ELSE inverted[1]

\* the returned map has the values of self as its keys
KeysOf(on) == IF on = "self" THEN Keys ELSE Objs

ValuesOf(on) == IF on = "self" THEN Objs ELSE Keys

\* the two objects as their methods see them
Views ==
    [self |-> bound(cls_inverse, self),
     inverted |-> IF inverted = <<>>
                       THEN <<>>
                       ELSE <<bound(cls_inverse, inverted[1])>>]

CallOn(on, op, key, value, ret) ==
    [on |-> on, op |-> op, key |-> key, value |-> value, ret |-> ret]

\* a call on one object ends: only that object and, if the call assigned
\* it, the class attribute are written
Return(on, st, call) ==
    /\ cls_inverse' = st.cls
    /\ IF on = "self"
       THEN self' = st.obj /\ inverted' = inverted
       ELSE self' = self /\ inverted' = <<st.obj>>
    /\ old' = Views
    /\ last' = call
    /\ calls' = calls + 1

Callable(on) ==
    /\ calls < MaxCalls
    /\ on = "inverted" => inverted # <<>>

InitPair ==
    \E args \in InitArgs :
        /\ self = __init__(args)
        /\ inverted = <<>>
        /\ cls_inverse = None
        /\ calls = 0
        /\ old = Views
        /\ last = CallOn("self", "init", 0, args, None)

PairSet ==
    \E on \in Targets :
        /\ Callable(on)
        /\ \E key \in KeysOf(on), value \in ValuesOf(on) :
               LET r == __setitem__(bound(cls_inverse, Target(on)), key, value)
               IN  Return(on, after(cls_inverse, Target(on), r.self),
                          CallOn(on, "set", key, value, r.ret))

PairDelete ==
    \E on \in Targets :
        /\ Callable(on)
        /\ \E key \in Objs :
               LET r == __delitem__(bound(cls_inverse, Target(on)), key)
               IN  Return(on, after(cls_inverse, Target(on), r.self),
                          CallOn(on, "delete", key, 0, r.ret))

PairInverse ==
    \E on \in Targets :
        /\ Callable(on)
        /\ LET r == inverse(bound(cls_inverse, Target(on)))
           IN  Return(on, after(cls_inverse, Target(on), r.self),
                      CallOn(on, "inverse", 0, 0, r.ret))

\* inverted_dict = self.invert(), kept as inverted
PairInvert ==
    /\ Callable("self")
    /\ LET r == invert(bound(cls_inverse, self))
           st == after(cls_inverse, self, r.self)
       IN  /\ cls_inverse' = st.cls
           /\ self' = st.obj
           /\ inverted' = <<r.ret>>
           /\ old' = Views
           /\ last' = CallOn("self", "invert", 0, 0, r.ret)
           /\ calls' = calls + 1

NextPair ==
    \/ PairSet
    \/ PairDelete
    \/ PairInverse
    \/ PairInvert

SpecPair == InitPair /\ [][NextPair]_vars

-----------------------------------------------------------------------------
(* Vocabulary of the properties *)

Built(s) == s._inverse # None

Entries(d) == {d[i] : i \in 1..Len(d)}

KeySet(d) == {d[i][1] : i \in 1..Len(d)}

ValueSet(d) == {d[i][2] : i \in 1..Len(d)}

Elems(l) == {l[i] : i \in 1..Len(l)}

\* no two keys share a value
Bijective(d) == \A i, j \in 1..Len(d) : d[i][2] = d[j][2] => i = j

\* the lists no longer agree with the forward entries (a key was overwritten)
ListsStale(s) == s._values # dict_values(s.dict)

\* the position of the last item of d whose value is v
LastWith(d, v) == CHOOSE i \in 1..Len(d) : d[i][2] = v /\ \A j \in (i + 1)..Len(d) : d[j][2] # v

-----------------------------------------------------------------------------
\* C1: immediately after set(k, v), get(k) returns v and contains(k) is
\* true, whether k was new or present and whether or not the cache is built.
C1_SetThenGet ==
    last.op = "set" =>
        /\ __getitem__(self, last.key).ret = Ok(last.value)
        /\ __contains__(self, last.key).ret = TRUE

\* an existing key is overwritten with another value while the cache is built
C1_Witness ==
    /\ last.op = "set"
    /\ Built(old)
    /\ list_contains(old._keys, last.key)
    /\ dict_getitem(old.dict, last.key) # Ok(last.value)
    /\ __getitem__(self, last.key).ret = Ok(last.value)

\* C2: on a map whose cache is not built, after set(k, v) that leaves the
\* forward values unique, the first inverse() maps v to k (k new or present).
C2_SetThenInverse ==
    (last.op = "set" /\ ~Built(self) /\ Bijective(self.dict)) =>
        dict_getitem(inverse(self).ret, last.value) = Ok(last.key)

\* C3: contains(v) is true for every value v of a current forward entry.
C3_ContainsEveryValue ==
    \A v \in ValueSet(self.dict) : __contains__(self, v).ret = TRUE

C5_GetAbsentFails ==
    \A k \in Objs :
        (k \notin KeySet(self.dict) /\ k \notin ValueSet(self.dict)) =>
            __getitem__(self, k).ret = KeyError

\* C6: delete(k) of a key not in _keys fails with KeyError and changes
\* nothing (forward entries, lists, cache), also when contains(k) is true.
C6_DeleteAbsent ==
    (last.op = "delete" /\ ~list_contains(old._keys, last.key)) =>
        /\ last.ret = KeyError
        /\ self = old

\* the deleted key is absent from _keys but resolvable by value, cache absent
C6_Witness ==
    /\ last.op = "delete"
    /\ ~list_contains(old._keys, last.key)
    /\ ~Built(old)
    /\ __contains__(old, last.key).ret = TRUE
    /\ last.ret = KeyError

\* C7: for a map whose forward entries are bijective, invert().invert() has
\* exactly the forward entries of the map.
C7_InvertTwice ==
    (last.op = "invert_invert" /\ Bijective(self.dict)) =>
        Entries(last.ret.dict) = Entries(self.dict)

\* invert().invert() on a bijective two-entry map with an overwritten key
C7_Witness ==
    /\ last.op = "invert_invert"
    /\ Bijective(self.dict)
    /\ Len(self.dict) = 2
    /\ ListsStale(self)
    /\ Entries(last.ret.dict) = Entries(self.dict)

\* C8: invert() returns a map whose forward entries are exactly v -> k for
\* the current forward entries k -> v, the latest key winning a shared
\* value, whatever the cache and the lists hold.
C8_InvertEntries ==
    last.op = "invert" =>
        LET d == last.ret.dict
        IN  /\ KeySet(d) = ValueSet(self.dict)
            /\ Len(d) = Cardinality(ValueSet(self.dict))
            /\ \A v \in ValueSet(self.dict) :
                   dict_getitem(d, v) = Ok(self.dict[LastWith(self.dict, v)][1])

\* invert() on a map with a shared value, an overwritten key and a built cache
C8_Witness ==
    /\ last.op = "invert"
    /\ ~Bijective(self.dict)
    /\ ListsStale(self)
    /\ Built(self)
    /\ Len(last.ret.dict) = 1

\* C9: once the cache is built no call changes or clears it: every later
\* inverse() returns the mapping the first one returned.
C9_CacheFixed ==
    [][Built(self) =>
          /\ self'._inverse = self._inverse
          /\ inverse(self').ret = inverse(self).ret]_vars

\* a set after the cache was built left the cache without the new pair
C9_Witness ==
    /\ last.op = "set"
    /\ Built(old)
    /\ self.dict # old.dict
    /\ self._inverse = old._inverse
    /\ Entries(self._inverse[1]) # Entries(dict_init(<<>>, zip(self._values, self._keys)))

\* C10 as stated: with the cache built, after set(c, v) for c not in _keys
\* and v neither in _keys nor a key of the cache, inverse()[v] and get(v)
\* both fail with KeyError.
C10_StaleLookup ==
    (/\ last.op = "set"
     /\ Built(old)
     /\ ~list_contains(old._keys, last.key)
     /\ ~list_contains(old._keys, last.value)
     /\ ~dict_contains(old._inverse[1], last.value)) =>
        /\ dict_getitem(inverse(self).ret, last.value) = KeyError
        /\ __getitem__(self, last.value).ret = KeyError

\* C10 amended: the same, for a value v other than the key c itself.
C10_StaleLookupOther ==
    (/\ last.op = "set"
     /\ Built(old)
     /\ ~list_contains(old._keys, last.key)
     /\ ~list_contains(old._keys, last.value)
     /\ ~dict_contains(old._inverse[1], last.value)
     /\ last.value # last.key) =>
        /\ dict_getitem(inverse(self).ret, last.value) = KeyError
        /\ __getitem__(self, last.value).ret = KeyError

\* a new pair is set on a non-empty map whose cache is built, and its value
\* is a value of the forward entries that no lookup resolves
C10_Witness ==
    /\ last.op = "set"
    /\ Built(old)
    /\ Len(old.dict) > 0
    /\ ~list_contains(old._keys, last.key)
    /\ ~list_contains(old._keys, last.value)
    /\ ~dict_contains(old._inverse[1], last.value)
    /\ last.value # last.key
    /\ last.value \in ValueSet(self.dict)
    /\ __getitem__(self, last.value).ret = KeyError

\* the last position of v in the list l
LastPos(l, v) == CHOOSE i \in 1..Len(l) : l[i] = v /\ \A j \in (i + 1)..Len(l) : l[j] # v

\* no element occurs twice in the list l
NoDuplicates(l) == \A i, j \in 1..Len(l) : l[i] = l[j] => i = j

\* C11: the inverse, when a call builds it for the first time, maps
\* _values[i] to _keys[i] for every position of the lists as they are at
\* that call (the later position winning a repeated value), so pairs set
\* before the call are in it and pairs deleted before it are not.
C11_FirstBuild ==
    (last.op \in {"inverse", "get", "contains"} /\ ~Built(old) /\ Built(self)) =>
        LET inv == self._inverse[1]
        IN  /\ KeySet(inv) = Elems(old._values)
            /\ Len(inv) = Cardinality(Elems(old._values))
            /\ \A v \in Elems(old._values) :
                   dict_getitem(inv, v) = Ok(old._keys[LastPos(old._values, v)])

\* the first access, on a map built empty, after two pairs were set that
\* share their value and one key was then overwritten
C11_Witness ==
    /\ last.op = "inverse"
    /\ ~Built(old)
    /\ Len(old._keys) = 2
    /\ old._values[1] = old._values[2]
    /\ ListsStale(old)
    /\ self._inverse[1] = <<<<old._values[2], old._keys[2]>>>>

\* C12: _keys and _values have equal length, _keys has no duplicates and
\* lists exactly the keys of the forward entries, in their insertion order,
\* also after construction from pairs that repeat a key.
C12_KeysMirrorEntries ==
    /\ Len(self._keys) = Len(self._values)
    /\ NoDuplicates(self._keys)
    /\ Elems(self._keys) = KeySet(self.dict)
    /\ self._keys = dict_keys(self.dict)

\* construction from two pairs with the same key
C12_Witness ==
    /\ last.op = "init"
    /\ Len(last.value) = 2
    /\ last.value[1][1] = last.value[2][1]
    /\ last.value[1][2] # last.value[2][2]
    /\ Len(self._keys) = 1

\* C13: _values[i] is the value the forward entries hold for _keys[i], at
\* every position i.
C13_ValuesMirrorEntries ==
    \A i \in 1..Len(self._keys) :
        /\ i <= Len(self._values)
        /\ dict_getitem(self.dict, self._keys[i]) = Ok(self._values[i])

\* C14: set(k, v) on a key already in _keys changes the forward entry of k
\* to v and nothing else: the lists, the other entries, the order of the
\* entries and the cache stay as they were.
C14_OverwriteFrame ==
    (last.op = "set" /\ list_contains(old._keys, last.key)) =>
        /\ self._keys = old._keys
        /\ self._values = old._values
        /\ self._inverse = old._inverse
        /\ dict_keys(self.dict) = dict_keys(old.dict)
        /\ \A i \in 1..Len(old.dict) :
               old.dict[i][1] # last.key => self.dict[i] = old.dict[i]
        /\ dict_getitem(self.dict, last.key) = Ok(last.value)

\* one of two keys is overwritten with another value while the cache is built
C14_Witness ==
    /\ last.op = "set"
    /\ list_contains(old._keys, last.key)
    /\ Len(old.dict) = 2
    /\ Built(old)
    /\ dict_getitem(old.dict, last.key) # Ok(last.value)
    /\ self._values = old._values

\* C15: get(k) for k in _keys returns the forward value of k and does not
\* consult the inverse (an absent cache stays absent), also when k is a key
\* of the inverse view.
C15_ForwardFirst ==
    (last.op = "get" /\ list_contains(old._keys, last.key)) =>
        /\ last.ret = dict_getitem(old.dict, last.key)
        /\ last.ret # KeyError
        /\ self = old

\* the key is in _keys and the built inverse holds another answer for it
C15_Witness ==
    /\ last.op = "get"
    /\ list_contains(old._keys, last.key)
    /\ Built(old)
    /\ dict_contains(old._inverse[1], last.key)
    /\ dict_getitem(old._inverse[1], last.key) # last.ret

\* C17: get and contains leave the forward entries and the two lists alone;
\* on a key in _keys they leave the cache as it was (absent stays absent), on
\* a key not in _keys they leave a built cache alone and build an absent one,
\* also when the get fails.
C17_LookupFrame ==
    (last.op \in {"get", "contains"}) =>
        /\ self.dict = old.dict
        /\ self._keys = old._keys
        /\ self._values = old._values
        /\ list_contains(old._keys, last.key) => self._inverse = old._inverse
        /\ ~list_contains(old._keys, last.key) =>
               /\ Built(self)
               /\ Built(old) => self._inverse = old._inverse

\* a get that fails on a non-empty map and builds the cache
C17_Witness ==
    /\ last.op = "get"
    /\ last.ret = KeyError
    /\ Len(old.dict) > 0
    /\ ~Built(old)
    /\ Built(self)

\* C18: in every state and for every k, contains(k) is true exactly when
\* get(k) succeeds.
C18_ContainsIffGet ==
    \A k \in Objs :
        __contains__(self, k).ret = (__getitem__(self, k).ret # KeyError)

\* contains answered true for an object that is neither a key nor a value
\* of the forward entries (resolved through stale data), and get succeeds
C18_Witness ==
    /\ last.op = "contains"
    /\ last.ret = TRUE
    /\ last.key \notin KeySet(self.dict)
    /\ last.key \notin ValueSet(self.dict)
    /\ __getitem__(self, last.key).ret # KeyError

\* C16: invert() leaves the map it is called on as it was (forward entries,
\* lists, cache, an absent cache staying absent), and afterwards a set, a
\* delete or the building of the cache on one of the two maps leaves the
\* forward entries, the lists and the cache of the other as they were.
C16_InvertIndependent ==
    /\ last.op = "invert" => Views.self = old.self
    /\ (last.op \in {"set", "delete", "inverse"} /\ last.on = "self") =>
           Views.inverted = old.inverted
    /\ last.on = "inverted" => Views.self = old.self

\* the cache of the returned map is built while that of the map it was
\* made from, which has entries and an overwritten key, stays absent
C16_Witness ==
    /\ last.on = "inverted"
    /\ last.op = "inverse"
    /\ Len(self.dict) > 0
    /\ ListsStale(self)
    /\ ~Built(Views.self)
    /\ Built(Views.inverted[1])
    /\ ~Built(old.inverted[1])

=============================================================================
